---- MODULE Spec2Model ----
(***************************************************************************)
(* Multi-Disease Detection System: the two Streamlit front-ends            *)
(* (main_app.py and mainfile.py) as a state machine.                       *)
(*                                                                         *)
(* One step is one run of the script: Streamlit reruns the whole script on *)
(* every interaction (a page selection, a form submission, a chat query).  *)
(* The state is what survives a rerun (the selected page, st.session_state)*)
(* plus `out`, the record of what the last run did: the form it read, the  *)
(* predictor calls it made, the exception it caught, what it rendered, and *)
(* whether the model and scaler files were there for it (artifacts).       *)
(*                                                                         *)
(* Numbers with one decimal (BMI, HbA1c, ST depression) are written in     *)
(* tenths: 31.0 is 310, 7.2 is 72.  They are only ever passed through.     *)
(***************************************************************************)
EXTENDS Integers, Sequences, FiniteSets, TLC

VARIABLES
    app,            \* which front-end is running: "main_app" or "mainfile"
    selected,       \* the page chosen in the sidebar option_menu
    session_state,  \* st.session_state: a mapping from the keys set so far
    kbLoads,        \* how many times load_knowledge_base has been invoked
    out             \* what the last script run read, met, called and rendered

vars == <<app, selected, session_state, kbLoads, out>>

\* How many knowledge-base loads a behaviour is followed for.
MaxLoads == 3

(***************************************************************************)
(* Constants of the two scripts                                            *)
(***************************************************************************)
DIABETES_FEATURES ==
    <<"gender", "age", "hypertension", "heart_disease",
      "smoking_history", "bmi", "HbA1c_level", "blood_glucose_level">>

CARDIO_FEATURES ==
    <<"age", "sex", "cp", "trestbps", "chol", "fbs", "restecg",
      "thalach", "exang", "oldpeak", "slope", "ca", "thal">>

DIABETES_FEATURE_NAMES ==
    <<"gender", "age", "hypertension", "heart_disease",
      "smoking_history", "bmi", "HbA1c_level", "blood_glucose_level">>

CARDIO_FEATURE_NAMES ==
    <<"age", "sex", "cp", "trestbps", "chol", "fbs", "restecg",
      "thalach", "exang", "oldpeak", "slope", "ca", "thal">>

MainAppPages == {"Diabetes Risk", "Heart Health", "Medical Chatbot", "About"}

MainfilePages ==
    {"Diabetes Prediction", "Cardiovascular Disease Prediction",
     "AI Chatbot", "About"}

\* A label that none of the select boxes offers.
Unlisted == "Other"

(***************************************************************************)
(* Helpers                                                                 *)
(***************************************************************************)
\* list.index(x) of Python, 0-based; callers check membership first
\* (x not in the list raises ValueError).
IndexOf(list, x) == (CHOOSE i \in 1..Len(list) : list[i] = x) - 1

InList(list, x) == \E i \in 1..Len(list) : list[i] = x

Range(list) == {list[i] : i \in 1..Len(list)}

\* Every one-field variation of a default form: the default itself and, for
\* each field of dom, each value of its domain.
Variations(default, dom) ==
    {default} \cup
    UNION {{[default EXCEPT ![f] = v] : v \in dom[f]} : f \in DOMAIN dom}

\* Python's None, where a knowledge base is expected.
None == [type |-> "NoneType", items |-> <<>>]

\* What the last run records when nothing was submitted.
NoForm == [submitted |-> FALSE]

\* The outcome of a try block: the exception caught ("" for none), the
\* predictor calls made before it, and the prediction (-1 for none).
Outcome(raised, message, calls, prediction) ==
    [raised |-> raised, message |-> message, calls |-> calls,
     prediction |-> prediction]

\* What the environment decides for one request: whether the model and
\* scaler files load, and what the predictor does with the vector.
PredictorResults ==
    {[ok |-> TRUE, label |-> 0], [ok |-> TRUE, label |-> 1],
     [ok |-> FALSE, label |-> 0]}

\* (With the files missing the predictor is never reached: one case.)
Envs ==
    {env \in [artifacts : BOOLEAN, predict : PredictorResults] :
        env.artifacts \/ env.predict = [ok |-> FALSE, label |-> 0]}

(***************************************************************************)
(* scripts.model_utils (not part of the sources at hand)                   *)
(***************************************************************************)
\* load_model_and_scaler: the pair, or an "artifact unavailable" error.
load_model_and_scaler(env) ==
    IF env.artifacts THEN [ok |-> TRUE, error |-> ""]
    ELSE [ok |-> FALSE, error |-> "artifact unavailable"]

\* predict_diabetes / predict_cardio: a binary label; a vector whose length
\* disagrees with the feature names is a feature-shape mismatch.
predict(input_data, feature_names, env) ==
    IF Len(input_data) # Len(feature_names)
    THEN [ok |-> FALSE, label |-> 0, error |-> "feature-shape mismatch"]
    ELSE IF env.predict.ok
         THEN [ok |-> TRUE, label |-> env.predict.label, error |-> ""]
         ELSE [ok |-> FALSE, label |-> 0, error |-> "prediction failed"]

(***************************************************************************)
(* main_app.py: the report generator                                       *)
(***************************************************************************)
\* The document's content: title, patient name, one line per parameter of
\* the inputs mapping, and the prediction text.
generate_medical_report(title, patient_name, inputs, prediction) ==
    [title |-> title, patient_name |-> patient_name,
     parameters |-> inputs, prediction |-> prediction]

\* st.session_state[key] = value
Store(state, key, value) ==
    [k \in DOMAIN state \cup {key} |-> IF k = key THEN value ELSE state[k]]

\* The download button a page shows after its form: the stored report when
\* the key is in the session state, and nothing otherwise.
DownloadButton(state, key) ==
    IF key \in DOMAIN state THEN <<state[key]>> ELSE <<>>

(***************************************************************************)
(* main_app.py: the diabetes form                                          *)
(***************************************************************************)
DiabetesDefault ==
    [name |-> "", age |-> 25, gender |-> "Female", hypertension |-> "No",
     heart_disease |-> "No", smoking |-> "Never", bmi |-> 250,
     hba1c |-> 57, glucose |-> 100]

\* The labels the select boxes offer.
DiabetesOptions ==
    [gender |-> {"Female", "Male"},
     hypertension |-> {"No", "Yes"}, heart_disease |-> {"No", "Yes"},
     smoking |-> {"Never", "Former", "Current", "Not Current", "Ever",
                  "Unknown"}]

\* The form of the specification's end-to-end scenario.
DiabetesScenario ==
    [name |-> "Ann", age |-> 45, gender |-> "Male", hypertension |-> "No",
     heart_disease |-> "No", smoking |-> "Never", bmi |-> 310,
     hba1c |-> 72, glucose |-> 190]

\* What the widgets can hand to the submit handler.
DiabetesForms == Variations(DiabetesDefault, DiabetesOptions) \cup {DiabetesScenario}

\* The same handler driven with labels no select box offers.
DiabetesFormsAnyLabel ==
    DiabetesForms \cup
    {[DiabetesDefault EXCEPT ![f] = Unlisted] :
        f \in {"gender", "hypertension", "heart_disease", "smoking"}}

smoke_mapping ==
    ("Never" :> 0) @@ ("Former" :> 1) @@ ("Current" :> 2) @@
    ("Not Current" :> 3) @@ ("Ever" :> 4) @@ ("Unknown" :> 5)

\* BMI and HbA1c in each other's place.
DiabetesInputDataSwapped(f) ==
    <<IF f.gender = "Male" THEN 1 ELSE 0,
      f.age,
      IF f.hypertension = "Yes" THEN 1 ELSE 0,
      IF f.heart_disease = "Yes" THEN 1 ELSE 0,
      smoke_mapping[f.smoking],
      f.hba1c, f.bmi, f.glucose>>

DiabetesInputData(f) ==
    <<IF f.gender = "Male" THEN 1 ELSE 0,
      f.age,
      IF f.hypertension = "Yes" THEN 1 ELSE 0,
      IF f.heart_disease = "Yes" THEN 1 ELSE 0,
      smoke_mapping[f.smoking],
      f.bmi, f.hba1c, f.glucose>>

\* A failed load swallowed: the predictor is called all the same.
DiabetesTryIgnoresLoad(f, env) ==
    LET input_data == DiabetesInputData(f)
        call == [fn |-> "predict_diabetes", input_data |-> input_data,
                 feature_names |-> DIABETES_FEATURES]
    IN  Outcome("", "", <<call>>, env.predict.label)

\* The try block up to the prediction.
DiabetesTry(f, env) ==
    IF f.smoking \notin DOMAIN smoke_mapping
    THEN Outcome("KeyError", "'" \o f.smoking \o "'", <<>>, -1)
    ELSE LET input_data == DiabetesInputData(f)
             loaded == load_model_and_scaler(env)
             call == [fn |-> "predict_diabetes", input_data |-> input_data,
                      feature_names |-> DIABETES_FEATURES]
             result == predict(input_data, DIABETES_FEATURES, env)
         IN  IF ~loaded.ok
             THEN Outcome("Exception", loaded.error, <<>>, -1)
             ELSE IF ~result.ok
                  THEN Outcome("Exception", result.error, <<call>>, -1)
                  ELSE Outcome("", "", <<call>>, result.label)

DiabetesScreen(t) ==
    IF t.raised # "" THEN <<"Error in prediction: " \o t.message>>
    ELSE IF t.prediction = 1 THEN <<"High Diabetes Risk Detected">>
         ELSE <<"No Diabetes Risk Detected">>

DiabetesReportData(f) ==
    ("Gender" :> f.gender) @@ ("Age" :> f.age) @@
    ("Hypertension" :> f.hypertension) @@
    ("Heart Disease" :> f.heart_disease) @@
    ("Smoking Status" :> f.smoking) @@ ("BMI" :> f.bmi) @@
    ("HbA1c Level" :> f.hba1c) @@ ("Blood Glucose" :> f.glucose)

DiabetesVerdict(prediction) ==
    IF prediction = 1 THEN "High Risk" ELSE "Low Risk"

DiabetesReport(f, t) ==
    IF t.raised = ""
    THEN generate_medical_report("Diabetes Risk Report", f.name,
                                 DiabetesReportData(f),
                                 DiabetesVerdict(t.prediction))
    ELSE generate_medical_report("Diabetes Risk Report", f.name,
                                 "Error" :> t.message, "Error")

\* The except block storing its report under the other form's key.
DiabetesStoredWrongKey(state, f, t) ==
    IF t.raised = ""
    THEN Store(state, "diabetes_report_pdf", DiabetesReport(f, t))
    ELSE Store(state, "cardio_report_pdf", DiabetesReport(f, t))

\* The session state after the handler: the report of the try block, or of
\* the except block, under the diabetes key.
DiabetesStored(state, f, t) ==
    IF t.raised = ""
    THEN Store(state, "diabetes_report_pdf", DiabetesReport(f, t))
    ELSE Store(state, "diabetes_report_pdf", DiabetesReport(f, t))

\* "Analyze Diabetes Risk" pressed with form f.
DiabetesSubmit(f, env) ==
    /\ app = "main_app"
    /\ selected = "Diabetes Risk"
    /\ \E t \in {DiabetesTry(f, env)} :
       \E state \in {DiabetesStored(session_state, f, t)} :
           /\ session_state' = state
           /\ out' = [request |-> "diabetes", form |-> f, calls |-> t.calls,
                      raised |-> t.raised, message |-> t.message,
                      prediction |-> t.prediction, knowledge_base |-> None,
                      artifacts |-> env.artifacts,
                      screen |-> DiabetesScreen(t),
                      download |-> DownloadButton(state, "diabetes_report_pdf")]
    /\ UNCHANGED <<app, selected, kbLoads>>

(***************************************************************************)
(* main_app.py: the cardiovascular form                                    *)
(***************************************************************************)
ecg_options == <<"Normal", "ST Abnormality", "LV Hypertrophy">>

angina_options == <<"No", "Mild", "Severe">>

slope_options == <<"Upsloping", "Flat", "Downsloping">>

thal_options == <<"Normal", "Fixed Defect", "Reversible Defect">>

CardioDefault ==
    [name |-> "", age |-> 45, gender |-> "Female", bp |-> 120,
     cholesterol |-> 200, fbs |-> "No", ecg |-> "Normal", angina |-> "No",
     depression |-> 10, slope |-> "Upsloping", vessels |-> 0,
     thal |-> "Normal"]

\* The labels the select boxes offer.
CardioOptions ==
    [gender |-> {"Female", "Male"}, fbs |-> {"No", "Yes"},
     ecg |-> Range(ecg_options), angina |-> Range(angina_options),
     slope |-> Range(slope_options),
     vessels |-> {0, 1, 2, 3, 4}, thal |-> Range(thal_options)]

\* A form with every text and number input changed from its default.
CardioScenario ==
    [CardioDefault EXCEPT !.name = "Ann", !.age = 61, !.bp = 140,
                          !.cholesterol = 240, !.depression = 23]

CardioForms == Variations(CardioDefault, CardioOptions) \cup {CardioScenario}

CardioFormsAnyLabel ==
    CardioForms \cup
    {[CardioDefault EXCEPT ![f] = Unlisted] :
        f \in {"gender", "fbs", "ecg", "angina", "slope", "thal"}}

\* The vector without its chest-pain position.
CardioInputDataShort(f) ==
    <<f.age,
      IF f.gender = "Male" THEN 1 ELSE 0,
      f.bp, f.cholesterol,
      IF f.fbs = "Yes" THEN 1 ELSE 0,
      IndexOf(ecg_options, f.ecg),
      150,
      IndexOf(angina_options, f.angina),
      f.depression,
      IndexOf(slope_options, f.slope),
      f.vessels,
      IndexOf(thal_options, f.thal)>>

CardioInputData(f) ==
    <<f.age,
      IF f.gender = "Male" THEN 1 ELSE 0,
      0,
      f.bp, f.cholesterol,
      IF f.fbs = "Yes" THEN 1 ELSE 0,
      IndexOf(ecg_options, f.ecg),
      150,
      IndexOf(angina_options, f.angina),
      f.depression,
      IndexOf(slope_options, f.slope),
      f.vessels,
      IndexOf(thal_options, f.thal)>>

\* list.index(x) on a label the list does not hold.
ValueError(x) ==
    Outcome("ValueError", "'" \o x \o "' is not in list", <<>>, -1)

\* The try block up to the prediction.
CardioTry(f, env) ==
    IF ~InList(ecg_options, f.ecg) THEN ValueError(f.ecg)
    ELSE IF ~InList(angina_options, f.angina) THEN ValueError(f.angina)
    ELSE IF ~InList(slope_options, f.slope) THEN ValueError(f.slope)
    ELSE IF ~InList(thal_options, f.thal) THEN ValueError(f.thal)
    ELSE LET input_data == CardioInputData(f)
             loaded == load_model_and_scaler(env)
             call == [fn |-> "predict_cardio", input_data |-> input_data,
                      feature_names |-> CARDIO_FEATURES]
             result == predict(input_data, CARDIO_FEATURES, env)
         IN  IF ~loaded.ok
             THEN Outcome("Exception", loaded.error, <<>>, -1)
             ELSE IF ~result.ok
                  THEN Outcome("Exception", result.error, <<call>>, -1)
                  ELSE Outcome("", "", <<call>>, result.label)

CardioScreen(t) ==
    IF t.raised # "" THEN <<"Error in prediction: " \o t.message>>
    ELSE IF t.prediction = 1 THEN <<"High Cardiovascular Risk Detected">>
         ELSE <<"Healthy Cardiovascular Profile">>

CardioReportData(f) ==
    ("Age" :> f.age) @@ ("Gender" :> f.gender) @@
    ("Blood Pressure" :> ToString(f.bp) \o " mmHg") @@
    ("Cholesterol" :> ToString(f.cholesterol) \o " mg/dL") @@
    ("Fasting Sugar" :> f.fbs) @@ ("ECG Findings" :> f.ecg) @@
    ("Exercise Angina" :> f.angina) @@ ("ST Depression" :> f.depression) @@
    ("ST Slope" :> f.slope) @@ ("Thalassemia" :> f.thal)

\* The two verdicts in each other's place.
CardioVerdictSwapped(prediction) ==
    IF prediction = 1 THEN "Low Risk" ELSE "High Risk"

CardioVerdict(prediction) ==
    IF prediction = 1 THEN "High Risk" ELSE "Low Risk"

CardioReport(f, t) ==
    IF t.raised = ""
    THEN generate_medical_report("Cardiac Health Report", f.name,
                                 CardioReportData(f),
                                 CardioVerdict(t.prediction))
    ELSE generate_medical_report("Cardiac Health Report", f.name,
                                 "Error" :> t.message, "Error")

\* The except block storing no report.
CardioStoredOnSuccess(state, f, t) ==
    IF t.raised = ""
    THEN Store(state, "cardio_report_pdf", CardioReport(f, t))
    ELSE state

\* The session state after the handler: the report of the try block, or of
\* the except block, under the cardio key.
CardioStored(state, f, t) ==
    IF t.raised = ""
    THEN Store(state, "cardio_report_pdf", CardioReport(f, t))
    ELSE Store(state, "cardio_report_pdf", CardioReport(f, t))

\* "Analyze Heart Health" pressed with form f.
CardioSubmit(f, env) ==
    /\ app = "main_app"
    /\ selected = "Heart Health"
    /\ \E t \in {CardioTry(f, env)} :
       \E state \in {CardioStored(session_state, f, t)} :
           /\ session_state' = state
           /\ out' = [request |-> "cardio", form |-> f, calls |-> t.calls,
                      raised |-> t.raised, message |-> t.message,
                      prediction |-> t.prediction, knowledge_base |-> None,
                      artifacts |-> env.artifacts,
                      screen |-> CardioScreen(t),
                      download |-> DownloadButton(state, "cardio_report_pdf")]
    /\ UNCHANGED <<app, selected, kbLoads>>

(***************************************************************************)
(* mainfile.py: the two prediction pages (no form, no report)              *)
(***************************************************************************)
MainfileDiabetesDefault ==
    [gender |-> "Female", age |-> 500, hypertension |-> 0,
     heart_disease |-> 0, smoking_history |-> "never", bmi |-> 250,
     hba1c_level |-> 60, blood_glucose_level |-> 150]

MainfileDiabetesOptions ==
    [gender |-> {"Female", "Male"}, age |-> {0, 1200},
     hypertension |-> {0, 1}, heart_disease |-> {0, 1},
     smoking_history |-> {"never", "former", "current", "not current",
                          "ever", "No Info"},
     bmi |-> {0, 1000}, hba1c_level |-> {0, 200},
     blood_glucose_level |-> {0, 500}]

MainfileDiabetesForms ==
    Variations(MainfileDiabetesDefault, MainfileDiabetesOptions)

MainfileDiabetesInputData(f) ==
    <<f.gender, f.age, f.hypertension, f.heart_disease, f.smoking_history,
      f.bmi, f.hba1c_level, f.blood_glucose_level>>

\* The try block: the artifacts are loaded first, then the vector is built.
MainfileDiabetesTry(f, env) ==
    LET loaded == load_model_and_scaler(env)
        input_data == MainfileDiabetesInputData(f)
        call == [fn |-> "predict_diabetes", input_data |-> input_data,
                 feature_names |-> DIABETES_FEATURE_NAMES]
        result == predict(input_data, DIABETES_FEATURE_NAMES, env)
    IN  IF ~loaded.ok
        THEN Outcome("Exception", loaded.error, <<>>, -1)
        ELSE IF ~result.ok
             THEN Outcome("Exception", result.error, <<call>>, -1)
             ELSE Outcome("", "", <<call>>, result.label)

MainfileDiabetesScreen(t) ==
    IF t.raised # "" THEN <<"Error: " \o t.message>>
    ELSE IF t.prediction = 0 THEN <<"The person is not diabetic">>
         ELSE <<"The person is diabetic">>

\* "Predict Diabetes" pressed.
MainfileDiabetesPredict(f, env) ==
    /\ app = "mainfile"
    /\ selected = "Diabetes Prediction"
    /\ \E t \in {MainfileDiabetesTry(f, env)} :
           out' = [request |-> "diabetes", form |-> f, calls |-> t.calls,
                   raised |-> t.raised, message |-> t.message,
                      prediction |-> t.prediction, knowledge_base |-> None,
                      artifacts |-> env.artifacts,
                   screen |-> MainfileDiabetesScreen(t), download |-> <<>>]
    /\ UNCHANGED <<app, selected, session_state, kbLoads>>

MainfileCardioDefault ==
    [age |-> 50, sex |-> 0, cp |-> 0, trestbps |-> 120, chol |-> 200,
     fbs |-> 0, restecg |-> 0, thalach |-> 150, exang |-> 0, oldpeak |-> 10,
     slope |-> 0, ca |-> 0, thal |-> 0]

MainfileCardioOptions ==
    [age |-> {1, 120}, sex |-> {0, 1}, cp |-> {0, 1, 2, 3},
     trestbps |-> {50, 300}, chol |-> {50, 600}, fbs |-> {0, 1},
     restecg |-> {0, 1, 2}, thalach |-> {50, 250}, exang |-> {0, 1},
     oldpeak |-> {0, 100}, slope |-> {0, 1, 2}, ca |-> {0, 1, 2, 3, 4},
     thal |-> {0, 1, 2, 3}]

MainfileCardioForms == Variations(MainfileCardioDefault, MainfileCardioOptions)

MainfileCardioInputData(f) ==
    <<f.age, f.sex, f.cp, f.trestbps, f.chol, f.fbs, f.restecg, f.thalach,
      f.exang, f.oldpeak, f.slope, f.ca, f.thal>>

MainfileCardioTry(f, env) ==
    LET loaded == load_model_and_scaler(env)
        input_data == MainfileCardioInputData(f)
        call == [fn |-> "predict_cardio", input_data |-> input_data,
                 feature_names |-> CARDIO_FEATURE_NAMES]
        result == predict(input_data, CARDIO_FEATURE_NAMES, env)
    IN  IF ~loaded.ok
        THEN Outcome("Exception", loaded.error, <<>>, -1)
        ELSE IF ~result.ok
             THEN Outcome("Exception", result.error, <<call>>, -1)
             ELSE Outcome("", "", <<call>>, result.label)

MainfileCardioScreen(t) ==
    IF t.raised # "" THEN <<"Error: " \o t.message>>
    ELSE IF t.prediction = 0
         THEN <<"The person is not at risk of cardiovascular disease">>
         ELSE <<"The person is at risk of cardiovascular disease">>

\* "Predict Cardiovascular Disease" pressed.
MainfileCardioPredict(f, env) ==
    /\ app = "mainfile"
    /\ selected = "Cardiovascular Disease Prediction"
    /\ \E t \in {MainfileCardioTry(f, env)} :
           out' = [request |-> "cardio", form |-> f, calls |-> t.calls,
                   raised |-> t.raised, message |-> t.message,
                      prediction |-> t.prediction, knowledge_base |-> None,
                      artifacts |-> env.artifacts,
                   screen |-> MainfileCardioScreen(t), download |-> <<>>]
    /\ UNCHANGED <<app, selected, session_state, kbLoads>>

(***************************************************************************)
(* scripts.chatbot_utils (not part of the sources at hand)                 *)
(***************************************************************************)
\* What the environment decides for one chatbot run: whether the knowledge
\* document can be read and parsed, and whether the matcher runs through.
ChatEnvs == [document : BOOLEAN, matcher : BOOLEAN]

Queries == {"what foods should diabetics avoid", "what is the weather today"}

FallbackMessage == "I don't have information on that."

SampleKnowledgeBase ==
    [type |-> "dict",
     items |-> ("foods to avoid for diabetes" :> "Avoid sugary drinks.") @@
               ("symptoms of diabetes" :> "Thirst and fatigue.")]

EmptyKnowledgeBase == [type |-> "dict", items |-> <<>>]

\* load_knowledge_base: the parsed mapping; a missing or unparsable
\* document gives the empty knowledge base and does not raise.
load_knowledge_base(env) ==
    [raised |-> FALSE, error |-> "",
     value |-> IF env.document THEN SampleKnowledgeBase
               ELSE EmptyKnowledgeBase]

\* The minimum similarity score of an answer.
Threshold == 60

\* The approximate string similarity of a query and a key, 0..100.
Similarity(query, key) ==
    IF <<query, key>> =
       <<"what foods should diabetics avoid", "foods to avoid for diabetes">>
    THEN 86
    ELSE IF key = "symptoms of diabetes" THEN 35 ELSE 30

\* get_chatbot_response: the answer of the best-scoring key, or the fallback
\* message below the threshold and on an empty knowledge base.
get_chatbot_response(query, knowledge_base, env) ==
    IF knowledge_base.type # "dict"
    THEN [ok |-> FALSE, text |-> "", error |-> "not a knowledge base"]
    ELSE IF DOMAIN knowledge_base.items = {}
    THEN [ok |-> TRUE, text |-> FallbackMessage, error |-> ""]
    ELSE IF ~env.matcher
    THEN [ok |-> FALSE, text |-> "", error |-> "matching failed"]
    ELSE LET keys == DOMAIN knowledge_base.items
             best == CHOOSE k \in keys :
                         \A j \in keys :
                             Similarity(query, k) >= Similarity(query, j)
         IN  IF Similarity(query, best) < Threshold
             THEN [ok |-> TRUE, text |-> FallbackMessage, error |-> ""]
             ELSE [ok |-> TRUE, text |-> knowledge_base.items[best],
                   error |-> ""]

(***************************************************************************)
(* main_app.py: the Medical Chatbot page                                   *)
(***************************************************************************)
\* What a run that submits nothing records, with the page's rendering.
Rendered(screen, download) ==
    [request |-> "none", form |-> NoForm, calls |-> <<>>, raised |-> "",
     message |-> "", prediction |-> -1, knowledge_base |-> None,
     artifacts |-> TRUE, screen |-> screen, download |-> download]

\* What a run that handles chat query `query` records: the knowledge base
\* it looked the query up in and the outcome t of its try block.
Chatted(query, knowledge_base, t) ==
    [request |-> "chat", form |-> [query |-> query], calls |-> <<>>,
     raised |-> t.raised, message |-> t.message, prediction |-> -1,
     knowledge_base |-> knowledge_base, artifacts |-> TRUE,
     screen |-> t.screen, download |-> <<>>]

\* The outcome of a chatbot try block: the exception caught ("" for none)
\* and what was written to the page.
ChatOutcome(raised, message, screen) ==
    [raised |-> raised, message |-> message, screen |-> screen]

\* The knowledge base tested for truth, which an empty mapping is not.
MainAppChatTryTruthy(user_query, knowledge_base, env) ==
    IF knowledge_base.type = "dict" /\ DOMAIN knowledge_base.items # {}
    THEN LET response == get_chatbot_response(user_query, knowledge_base, env)
         IN  IF response.ok
             THEN ChatOutcome("", "", <<user_query, response.text>>)
             ELSE ChatOutcome("Exception", response.error,
                              <<"Chatbot error: " \o response.error>>)
    ELSE ChatOutcome("", "",
             <<"Failed to load the knowledge base. Please check the file path and format.">>)

\* The try block around the chat query.
MainAppChatTry(user_query, knowledge_base, env) ==
    IF knowledge_base.type = "dict"
    THEN LET response == get_chatbot_response(user_query, knowledge_base, env)
         IN  IF response.ok
             THEN ChatOutcome("", "", <<user_query, response.text>>)
             ELSE ChatOutcome("Exception", response.error,
                              <<"Chatbot error: " \o response.error>>)
    ELSE ChatOutcome("", "",
             <<"Failed to load the knowledge base. Please check the file path and format.">>)

\* Whether this run has to load the knowledge base ("load it once").
MainAppNeedsLoad(state) == "knowledge_base" \notin DOMAIN state

\* One run of the page; user_query is "" when no query was submitted.
\* The load sits outside the try block: a raise there ends the run.
MainAppChatbotRun(user_query, env) ==
    LET needsLoad == MainAppNeedsLoad(session_state)
        loaded == load_knowledge_base(env)
        uncaught == ChatOutcome("Uncaught", loaded.error,
                                <<"Uncaught: " \o loaded.error>>)
    IN  IF needsLoad /\ loaded.raised
        THEN /\ out' = IF user_query = "" THEN Rendered(uncaught.screen, <<>>)
                       ELSE Chatted(user_query, None, uncaught)
             /\ kbLoads' = kbLoads + 1
             /\ UNCHANGED session_state
        ELSE \E state \in {IF needsLoad
                           THEN Store(session_state, "knowledge_base",
                                      loaded.value)
                           ELSE session_state} :
                 /\ session_state' = state
                 /\ kbLoads' = IF needsLoad THEN kbLoads + 1 ELSE kbLoads
                 /\ out' = IF user_query = "" THEN Rendered(<<>>, <<>>)
                           ELSE Chatted(user_query, state["knowledge_base"],
                                        MainAppChatTry(user_query,
                                                       state["knowledge_base"],
                                                       env))

\* A page is chosen in the sidebar: the script runs it with nothing submitted.
MainAppSelect(page, env) ==
    /\ app = "main_app"
    /\ selected' = page
    /\ IF page = "Medical Chatbot"
       THEN MainAppChatbotRun("", env)
       ELSE /\ out' = Rendered(<<>>,
                        IF page = "Diabetes Risk"
                        THEN DownloadButton(session_state, "diabetes_report_pdf")
                        ELSE IF page = "Heart Health"
                        THEN DownloadButton(session_state, "cardio_report_pdf")
                        ELSE <<>>)
            /\ UNCHANGED <<session_state, kbLoads>>
    /\ UNCHANGED app

\* A query is typed into the chat input of the page on display.
MainAppChatQuery(user_query, env) ==
    /\ app = "main_app"
    /\ selected = "Medical Chatbot"
    /\ MainAppChatbotRun(user_query, env)
    /\ UNCHANGED <<app, selected>>

(***************************************************************************)
(* mainfile.py: the AI Chatbot page                                        *)
(***************************************************************************)
\* The try block around the chat query.
MainfileChatTry(user_query, knowledge_base, env) ==
    LET response == get_chatbot_response(user_query, knowledge_base, env)
    IN  IF response.ok
        THEN ChatOutcome("", "", <<user_query, response.text>>)
        ELSE ChatOutcome("Exception", response.error,
                         <<"Chatbot error: " \o response.error>>)

\* One run of the page: the knowledge base is loaded, then the query, if
\* any, is answered with it.
MainfileChatbotRun(user_query, env) ==
    LET loaded == load_knowledge_base(env)
        knowledge_base == IF loaded.raised THEN None ELSE loaded.value
        notice == IF loaded.raised
                  THEN <<"Error loading knowledge base: " \o loaded.error>>
                  ELSE <<>>
    IN  /\ kbLoads' = kbLoads + 1
        /\ out' = IF user_query = "" THEN Rendered(notice, <<>>)
                  ELSE \* the load's notice stays on the page above the answer
                       LET t == MainfileChatTry(user_query, knowledge_base, env)
                       IN  Chatted(user_query, knowledge_base,
                                   [t EXCEPT !.screen = notice \o @])
        /\ UNCHANGED session_state

MainfileSelect(page, env) ==
    /\ app = "mainfile"
    /\ selected' = page
    /\ IF page = "AI Chatbot"
       THEN /\ kbLoads < MaxLoads
            /\ MainfileChatbotRun("", env)
       ELSE /\ out' = Rendered(<<>>, <<>>)
            /\ UNCHANGED <<session_state, kbLoads>>
    /\ UNCHANGED app

MainfileChatQuery(user_query, env) ==
    /\ app = "mainfile"
    /\ selected = "AI Chatbot"
    /\ kbLoads < MaxLoads
    /\ MainfileChatbotRun(user_query, env)
    /\ UNCHANGED <<app, selected>>

(***************************************************************************)
(* Specifications                                                          *)
(***************************************************************************)
\* Only the chatbot pages read the environment when they are rendered; a
\* page with a query input is rendered with no query in it.
SelectEnvs(page) ==
    IF page \in {"Medical Chatbot", "AI Chatbot"}
    THEN {env \in ChatEnvs : env.matcher}
    ELSE {[document |-> TRUE, matcher |-> TRUE]}

\* Either script starts on its first page with an empty session.
Init ==
    /\ app \in {"main_app", "mainfile"}
    /\ selected = IF app = "main_app" THEN "Diabetes Risk"
                  ELSE "Diabetes Prediction"
    /\ session_state = <<>>
    /\ kbLoads = 0
    /\ out = Rendered(<<>>, <<>>)

Next ==
    \/ \E page \in MainAppPages : \E env \in SelectEnvs(page) :
           MainAppSelect(page, env)
    \/ \E f \in DiabetesForms, env \in Envs : DiabetesSubmit(f, env)
    \/ \E f \in CardioForms, env \in Envs : CardioSubmit(f, env)
    \/ \E q \in Queries, env \in ChatEnvs : MainAppChatQuery(q, env)
    \/ \E page \in MainfilePages : \E env \in SelectEnvs(page) :
           MainfileSelect(page, env)
    \/ \E f \in MainfileDiabetesForms, env \in Envs :
           MainfileDiabetesPredict(f, env)
    \/ \E f \in MainfileCardioForms, env \in Envs :
           MainfileCardioPredict(f, env)
    \/ \E q \in Queries, env \in ChatEnvs : MainfileChatQuery(q, env)

Spec == Init /\ [][Next]_vars

\* main_app.py with its two submit handlers driven with any label, listed
\* or not.
InitAnyLabel == Init /\ app = "main_app"

NextAnyLabel ==
    \/ \E page \in MainAppPages : \E env \in SelectEnvs(page) :
           MainAppSelect(page, env)
    \/ \E f \in DiabetesFormsAnyLabel, env \in Envs : DiabetesSubmit(f, env)
    \/ \E f \in CardioFormsAnyLabel, env \in Envs : CardioSubmit(f, env)
    \/ \E q \in Queries, env \in ChatEnvs : MainAppChatQuery(q, env)

SpecAnyLabel == InitAnyLabel /\ [][NextAnyLabel]_vars

\* main_app.py's diabetes form alone, over every combination of its labels
\* with the numbers at their lowest, at the scenario's and at their highest.
DiabetesNumbers ==
    {[age |-> 1, bmi |-> 100, hba1c |-> 30, glucose |-> 50],
     [age |-> 45, bmi |-> 310, hba1c |-> 72, glucose |-> 190],
     [age |-> 120, bmi |-> 500, hba1c |-> 150, glucose |-> 300]}

DiabetesFormsEveryLabel ==
    {[name |-> "Ann", age |-> n.age, gender |-> g, hypertension |-> h,
      heart_disease |-> d, smoking |-> s, bmi |-> n.bmi, hba1c |-> n.hba1c,
      glucose |-> n.glucose] :
        n \in DiabetesNumbers, g \in DiabetesOptions.gender,
        h \in DiabetesOptions.hypertension,
        d \in DiabetesOptions.heart_disease,
        s \in DiabetesOptions.smoking}

NextDiabetesForm ==
    \E f \in DiabetesFormsEveryLabel, env \in Envs : DiabetesSubmit(f, env)

SpecDiabetesForm == InitAnyLabel /\ [][NextDiabetesForm]_vars

(***************************************************************************)
(* Properties                                                              *)
(***************************************************************************)
\* The calls the last run made, as a set.
Calls == Range(out.calls)

\* The last run handled a submission of one of main_app.py's two forms.
MainAppPrediction ==
    app = "main_app" /\ out.request \in {"diabetes", "cardio"}

\* The report the last main_app.py prediction run stored.
StoredReport ==
    session_state[IF out.request = "diabetes" THEN "diabetes_report_pdf"
                  ELSE "cardio_report_pdf"]

\* The categorical fields of the form the last run read, with the labels
\* each one's encoding has an entry for.
EncodingLabels ==
    IF out.request = "diabetes"
    THEN DiabetesOptions
    ELSE [f \in DOMAIN CardioOptions \ {"vessels"} |-> CardioOptions[f]]

C2_FieldOf ==
    ("gender" :> "gender") @@ ("age" :> "age") @@
    ("hypertension" :> "hypertension") @@
    ("heart_disease" :> "heart_disease") @@
    ("smoking_history" :> "smoking") @@ ("bmi" :> "bmi") @@
    ("HbA1c_level" :> "hba1c") @@ ("blood_glucose_level" :> "glucose")

\* The value a diabetes feature is to have in the vector for form f.
C2_Encoded(feature, f) ==
    LET v == f[C2_FieldOf[feature]]
    IN  IF feature = "gender"
        THEN (("Male" :> 1) @@ ("Female" :> 0))[v]
        ELSE IF feature \in {"hypertension", "heart_disease"}
        THEN (("Yes" :> 1) @@ ("No" :> 0))[v]
        ELSE IF feature = "smoking_history"
        THEN IF v = "Never" THEN 0 ELSE smoke_mapping[v]
        ELSE v

\* C2: in main_app.py the vector passed to predict_diabetes holds at
\* position i the encoded value of the i-th name of DIABETES_FEATURES
\* (Male=1/Female=0, Yes=1/No=0, Never=0, numbers unchanged), and the
\* scenario {Male, 45, No, No, Never, 31.0, 7.2, 190} gives
\* [1, 45, 0, 0, 0, 31.0, 7.2, 190].
C2_DiabetesVectorOrder ==
    (app = "main_app" /\ out.request = "diabetes") =>
        \A c \in Calls :
            /\ c.fn = "predict_diabetes"
            /\ Len(c.input_data) = Len(DIABETES_FEATURES)
            /\ \A i \in 1..Len(DIABETES_FEATURES) :
                   c.input_data[i] = C2_Encoded(DIABETES_FEATURES[i], out.form)
            /\ [out.form EXCEPT !.name = "Ann"] = DiabetesScenario
                   => c.input_data = <<1, 45, 0, 0, 0, 310, 72, 190>>

\* The scenario's form was submitted and its vector reached the predictor.
C2_Witness ==
    /\ app = "main_app"
    /\ out.request = "diabetes"
    /\ out.form = DiabetesScenario
    /\ Len(out.calls) = 1

\* The input that collects each cardiovascular feature, per front-end.
C3_FieldOf ==
    IF app = "main_app"
    THEN ("age" :> "age") @@ ("sex" :> "gender") @@ ("trestbps" :> "bp") @@
         ("chol" :> "cholesterol") @@ ("fbs" :> "fbs") @@
         ("restecg" :> "ecg") @@ ("exang" :> "angina") @@
         ("oldpeak" :> "depression") @@ ("slope" :> "slope") @@
         ("ca" :> "vessels") @@ ("thal" :> "thal")
    ELSE [feature \in Range(CARDIO_FEATURE_NAMES) |-> feature]

\* The value a cardiovascular feature is to have in the vector, given what
\* the user entered for it.
C3_Encoded(feature, v) ==
    IF app = "mainfile" THEN v
    ELSE IF feature = "sex" THEN (("Male" :> 1) @@ ("Female" :> 0))[v]
    ELSE IF feature = "fbs" THEN (("Yes" :> 1) @@ ("No" :> 0))[v]
    ELSE IF feature = "restecg" THEN IndexOf(ecg_options, v)
    ELSE IF feature = "exang" THEN IndexOf(angina_options, v)
    ELSE IF feature = "slope" THEN IndexOf(slope_options, v)
    ELSE IF feature = "thal" THEN IndexOf(thal_options, v)
    ELSE v

\* C3: the vector passed to predict_cardio has 13 positions in the order of
\* the feature-order constant, and each position holds the encoded value the
\* user entered for that feature, chest-pain type and max heart rate
\* included: no position is filled with something the user did not enter.
C3_CardioVectorFromForm ==
    out.request = "cardio" =>
        \A c \in Calls :
            /\ Len(c.input_data) = 13
            /\ \A i \in 1..13 :
                   /\ CARDIO_FEATURES[i] \in DOMAIN C3_FieldOf
                   /\ C3_FieldOf[CARDIO_FEATURES[i]] \in DOMAIN out.form
                   /\ c.input_data[i] =
                          C3_Encoded(CARDIO_FEATURES[i],
                                     out.form[C3_FieldOf[CARDIO_FEATURES[i]]])

\* The last run answered a chat query from an empty knowledge base (which
\* is also what a document that could not be loaded leaves).
EmptyBaseQuery ==
    out.request = "chat" /\ DOMAIN out.knowledge_base.items = {}

HighRiskMessages ==
    {"High Diabetes Risk Detected", "High Cardiovascular Risk Detected"}

LowRiskMessages ==
    {"No Diabetes Risk Detected", "Healthy Cardiovascular Profile"}

\* C5: the report's verdict is one of "High Risk", "Low Risk", "Error":
\* "High Risk" exactly when the prediction is 1, "Low Risk" exactly when it
\* is 0, "Error" exactly when the request raised; and it agrees with the
\* message put on the screen by the same request.
C5_VerdictMatchesPrediction ==
    MainAppPrediction =>
        LET verdict == StoredReport.prediction
            shown == out.screen[1]
        IN  /\ verdict \in {"High Risk", "Low Risk", "Error"}
            /\ verdict = "High Risk" <=> out.prediction = 1
            /\ verdict = "Low Risk" <=> out.prediction = 0
            /\ verdict = "Error" <=> out.raised # ""
            /\ Len(out.screen) = 1
            /\ verdict = "High Risk" <=> shown \in HighRiskMessages
            /\ verdict = "Low Risk" <=> shown \in LowRiskMessages
            /\ verdict = "Error" <=>
                   shown = "Error in prediction: " \o out.message

\* A cardiovascular request was predicted 1 and reported "High Risk".
C5_Witness ==
    /\ MainAppPrediction
    /\ out.request = "cardio"
    /\ out.prediction = 1
    /\ StoredReport.prediction = "High Risk"

\* The last run was a prediction request that met missing artifacts.
ArtifactFailed ==
    out.request \in {"diabetes", "cardio"} /\ ~out.artifacts

\* A step that is a prediction request carried through to a verdict.
NormalRequest ==
    /\ Next
    /\ out'.request \in {"diabetes", "cardio"}
    /\ out'.raised = ""
    /\ Len(out'.calls) = 1
    /\ out'.prediction \in {0, 1}

\* C6: a request that fails to load the model or scaler is aborted: the
\* predictor is not called, there is no High Risk / Low Risk verdict, the
\* failure is shown to the user, and a next request can be submitted and is
\* carried through to a verdict.
C6_ArtifactFailureAborts ==
    ArtifactFailed =>
        /\ out.calls = <<>>
        /\ out.raised # ""
        /\ out.prediction = -1
        /\ out.screen \in {<<"Error in prediction: artifact unavailable">>,
                           <<"Error: artifact unavailable">>}
        /\ app = "main_app" => StoredReport.prediction = "Error"
        /\ ENABLED NormalRequest

\* main_app.py's diabetes request met missing artifacts and stored the
\* "Error" report.
C6_Witness ==
    /\ ArtifactFailed
    /\ MainAppPrediction
    /\ out.request = "diabetes"
    /\ StoredReport.prediction = "Error"

\* Session key `key` is as it was: set or not, and with the same value.
Kept(key) ==
    /\ key \in DOMAIN session_state' <=> key \in DOMAIN session_state
    /\ key \in DOMAIN session_state =>
           session_state'[key] = session_state[key]

\* The texts an error caught at a request's boundary is shown with.
ErrorTexts(message) ==
    {prefix \o message :
        prefix \in {"Error in prediction: ", "Error: ", "Chatbot error: "}}

C8_LoadedAtMostOnce == kbLoads <= 1

\* Two values print the same (a number and its text do not).
SameValue(a, b) == ToString(a) = ToString(b)

\* The report parameter each form input is to appear under.
C9_ParameterOf ==
    IF out.request = "diabetes"
    THEN ("gender" :> "Gender") @@ ("age" :> "Age") @@
         ("hypertension" :> "Hypertension") @@
         ("heart_disease" :> "Heart Disease") @@
         ("smoking" :> "Smoking Status") @@ ("bmi" :> "BMI") @@
         ("hba1c" :> "HbA1c Level") @@ ("glucose" :> "Blood Glucose")
    ELSE ("age" :> "Age") @@ ("gender" :> "Gender") @@
         ("bp" :> "Blood Pressure") @@ ("cholesterol" :> "Cholesterol") @@
         ("fbs" :> "Fasting Sugar") @@ ("ecg" :> "ECG Findings") @@
         ("angina" :> "Exercise Angina") @@
         ("depression" :> "ST Depression") @@ ("slope" :> "ST Slope") @@
         ("vessels" :> "Fluoroscopy Vessels") @@ ("thal" :> "Thalassemia")

\* C9: after a successful prediction request the report's parameter mapping
\* holds every field the user entered on the form, with the value entered.
C9_ReportHoldsEveryInput ==
    (MainAppPrediction /\ out.raised = "") =>
        \A field \in DOMAIN out.form \ {"name"} :
            /\ C9_ParameterOf[field] \in DOMAIN StoredReport.parameters
            /\ SameValue(StoredReport.parameters[C9_ParameterOf[field]],
                         out.form[field])

\* C10: in both front-ends every call to predict_diabetes passes 8 values
\* with the 8 feature names, every call to predict_cardio 13 values with the
\* 13 feature names: the vector is as long as the name list passed with it.
C10_VectorLengths ==
    \A c \in Calls :
        /\ c.fn = "predict_diabetes" =>
               Len(c.input_data) = 8 /\ Len(c.feature_names) = 8
        /\ c.fn = "predict_cardio" =>
               Len(c.input_data) = 13 /\ Len(c.feature_names) = 13
        /\ Len(c.input_data) = Len(c.feature_names)

\* main_app.py called predict_cardio.
C10_Witness ==
    /\ app = "main_app"
    /\ \E c \in Calls : c.fn = "predict_cardio" /\ Len(c.input_data) = 13

\* The categorical cardiovascular features.
C11_Categorical ==
    {"sex", "cp", "fbs", "restecg", "exang", "slope", "ca", "thal"}

\* C11: for every categorical cardiovascular feature, every code that
\* main_app.py places in the feature vector is one of the codes that
\* mainfile.py's select box offers for that feature.
C11_CodesOfferedByMainfile ==
    app = "main_app" =>
        \A c \in Calls :
            c.fn = "predict_cardio" =>
                \A feature \in C11_Categorical :
                    c.input_data[IndexOf(CARDIO_FEATURES, feature) + 1]
                        \in MainfileCardioOptions[feature]

\* The form, the session key and the page of each disease.
C12_Diseases ==
    {[request |-> "diabetes", key |-> "diabetes_report_pdf",
      page |-> "Diabetes Risk"],
     [request |-> "cardio", key |-> "cardio_report_pdf",
      page |-> "Heart Health"]}

\* The report a submission generates from its form and its outcome.
C12_Generated(run) ==
    IF run.request = "diabetes" THEN DiabetesReport(run.form, run)
    ELSE CardioReport(run.form, run)

\* One run of the script, for disease d: a submission of d's form stores the
\* report it generated, any other run leaves d's key as it was, and a run of
\* d's page offers the stored report for download exactly when there is one.
C12_Run(d) ==
    /\ IF out'.request = d.request
       THEN /\ d.key \in DOMAIN session_state'
            /\ session_state'[d.key] = C12_Generated(out')
       ELSE Kept(d.key)
    /\ selected' = d.page =>
           out'.download = IF d.key \in DOMAIN session_state'
                           THEN <<session_state'[d.key]>>
                           ELSE <<>>

\* C12: a session starts with no report and no download button; from then
\* on the report stored for a disease, and offered by its download button,
\* is the one generated by the most recent submission of that disease's
\* form, failed or not, and the button is offered if and only if such a
\* submission has happened.
C12_LatestReportOffered ==
    /\ \A d \in C12_Diseases : d.key \notin DOMAIN session_state
    /\ out.download = <<>>
    /\ [][\A d \in C12_Diseases : C12_Run(d)]_vars

\* A failed diabetes submission came after a successful cardio submission:
\* each key holds its own form's latest report and the diabetes one is on
\* offer.
C12_Witness ==
    /\ app = "main_app"
    /\ out.request = "diabetes"
    /\ out.raised # ""
    /\ "cardio_report_pdf" \in DOMAIN session_state
    /\ session_state["cardio_report_pdf"].prediction = "High Risk"
    /\ session_state["diabetes_report_pdf"].prediction = "Error"
    /\ out.download = <<session_state["diabetes_report_pdf"]>>

====
